---- MODULE Spec2Model ----
(***************************************************************************)
(* A model of main.py: the caption parser, the category classifier, the    *)
(* record builder and the message handler with its searches, details       *)
(* fetch and upsert into the document collection.                          *)
(*                                                                         *)
(* Strings are sequences of one-character strings, so that the regular     *)
(* expressions and str methods of the source are computed character by     *)
(* character, on the ASCII range.  Python's None is the value None below;  *)
(* a dict is a sequence of <<key, value>>, in the order of its keys.  A    *)
(* timestamp is the reading of a clock that ticks at every reading.        *)
(***************************************************************************)
EXTENDS Integers, Sequences, FiniteSets, TLC

VARIABLES
    caption,      \* helper runs: the caption handed to the helpers
    parsed,       \* helper runs: extract_title_year(caption), or NotRun
    reparsed,     \* helper runs: extract_title_year(parsed.title), or NotRun
    category,     \* helper runs: detect_category(caption), or NotRun
    pc,           \* handler runs: where each run of handle stands
    local,        \* handler runs: the local variables of each run of handle
    collection,   \* the documents of the MongoDB collection, in natural order
    nextId,       \* the next _id the collection assigns
    clock,        \* datetime.utcnow()
    log           \* per run: the calls it made and how it ended

vars == <<caption, parsed, reparsed, category, pc, local, collection, nextId, clock, log>>

None == <<"<None>">>
NotRun == <<"<NotRun>">>
NotParsed == [title |-> NotRun, year |-> NotRun]

\* Python truthiness of a str, a list or None
Truthy(x) == x /= None /\ x /= <<>>

Or(x, y) == IF Truthy(x) THEN x ELSE y

-----------------------------------------------------------------------------
(* Characters and the str methods the helpers use *)

UpperChars == <<"A","B","C","D","E","F","G","H","I","J","K","L","M",
                "N","O","P","Q","R","S","T","U","V","W","X","Y","Z">>
LowerChars == <<"a","b","c","d","e","f","g","h","i","j","k","l","m",
                "n","o","p","q","r","s","t","u","v","w","x","y","z">>
DigitChars == {"0","1","2","3","4","5","6","7","8","9"}
\* what \s of the re module, str.strip and str.split take for whitespace, on
\* the ASCII range: space, \t, \n, \r, \f, \v and the separators 1C to 1F
SpaceChars == {" ", "\t", "\n", "\r", "\f", "", "", "", "", ""}

Range(s) == {s[i] : i \in DOMAIN s}

IsDigit(c) == c \in DigitChars
IsSpace(c) == c \in SpaceChars
\* \w of the re module, on the ASCII range
IsWordChar(c) == c \in Range(UpperChars) \cup Range(LowerChars) \cup DigitChars \cup {"_"}

LowerChar(c) ==
    IF c \in Range(UpperChars)
    THEN LowerChars[CHOOSE i \in DOMAIN UpperChars : UpperChars[i] = c]
    ELSE c

UpperChar(c) ==
    IF c \in Range(LowerChars)
    THEN UpperChars[CHOOSE i \in DOMAIN LowerChars : LowerChars[i] = c]
    ELSE c

\* str.lower
Lower(s) == [i \in DOMAIN s |-> LowerChar(s[i])]

\* str.capitalize: first character upper-cased, the rest lower-cased
Capitalize(w) ==
    [i \in DOMAIN w |-> IF i = 1 THEN UpperChar(w[i]) ELSE LowerChar(w[i])]

\* sub occurs in s at index i
OccursAt(s, sub, i) ==
    /\ i >= 1
    /\ i + Len(sub) - 1 <= Len(s)
    /\ \A k \in 1..Len(sub) : s[i + k - 1] = sub[k]

\* the `in` operator on str
Contains(s, sub) == \E i \in 1..(Len(s) + 1) : OccursAt(s, sub, i)

RECURSIVE LStrip(_)
LStrip(s) == IF s /= <<>> /\ IsSpace(Head(s)) THEN LStrip(Tail(s)) ELSE s

RECURSIVE RStrip(_)
RStrip(s) ==
    IF s /= <<>> /\ IsSpace(s[Len(s)]) THEN RStrip(SubSeq(s, 1, Len(s) - 1)) ELSE s

\* str.strip
Strip(s) == RStrip(LStrip(s))

\* str.replace(old, ""): every non-overlapping occurrence, left to right
RECURSIVE ReplaceAll(_, _)
ReplaceAll(s, old) ==
    IF s = <<>> THEN <<>>
    ELSE IF OccursAt(s, old, 1)
         THEN ReplaceAll(SubSeq(s, Len(old) + 1, Len(s)), old)
         ELSE <<Head(s)>> \o ReplaceAll(Tail(s), old)

\* str.split(): the maximal runs of non-whitespace
RECURSIVE SplitFrom(_, _)
SplitFrom(s, word) ==
    IF s = <<>> THEN (IF word = <<>> THEN <<>> ELSE <<word>>)
    ELSE IF IsSpace(Head(s))
         THEN (IF word = <<>> THEN <<>> ELSE <<word>>) \o SplitFrom(Tail(s), <<>>)
         ELSE SplitFrom(Tail(s), Append(word, Head(s)))

Split(s) == SplitFrom(s, <<>>)

\* sep.join(words)
RECURSIVE Join(_, _)
Join(sep, words) ==
    IF words = <<>> THEN <<>>
    ELSE IF Len(words) = 1 THEN words[1]
    ELSE words[1] \o sep \o Join(sep, Tail(words))

-----------------------------------------------------------------------------
(* extract_title_year *)

\* \b(19|20)\d{2}\b matches at index i
YearAt(s, i) ==
    /\ i >= 1
    /\ i + 3 <= Len(s)
    /\ \/ s[i] = "1" /\ s[i + 1] = "9"
       \/ s[i] = "2" /\ s[i + 1] = "0"
    /\ IsDigit(s[i + 2])
    /\ IsDigit(s[i + 3])
    /\ (i = 1 \/ ~IsWordChar(s[i - 1]))
    /\ (i + 4 > Len(s) \/ ~IsWordChar(s[i + 4]))

\* re.search(...): the leftmost match, group(0), or None
YearSearch(s) ==
    IF \E i \in DOMAIN s : YearAt(s, i)
    THEN LET i == CHOOSE j \in DOMAIN s :
                      YearAt(s, j) /\ \A k \in 1..(j - 1) : ~YearAt(s, k)
         IN  SubSeq(s, i, i + 3)
    ELSE None

CloserOf(c) == IF c = "[" THEN "]" ELSE IF c = "(" THEN ")" ELSE "}"

\* the index of the first closer after index 1 that no newline precedes, or 0
\* (.*? is lazy and the dot does not match a newline)
RECURSIVE CloseIndex(_, _, _)
CloseIndex(s, closer, i) ==
    IF i > Len(s) THEN 0
    ELSE IF s[i] = closer THEN i
    ELSE IF s[i] = "\n" THEN 0
    ELSE CloseIndex(s, closer, i + 1)

\* re.sub(r"\[.*?\]|\(.*?\)|\{.*?\}", " ", text)
RECURSIVE StripBrackets(_)
StripBrackets(s) ==
    IF s = <<>> THEN <<>>
    ELSE IF Head(s) \in {"[", "(", "{"} /\ CloseIndex(s, CloserOf(Head(s)), 2) > 0
         THEN <<" ">> \o StripBrackets(
                  SubSeq(s, CloseIndex(s, CloserOf(Head(s)), 2) + 1, Len(s)))
         ELSE <<Head(s)>> \o StripBrackets(Tail(s))

\* re.sub(r"[^\w\s]", " ", text)
StripPunct(s) ==
    [i \in DOMAIN s |-> IF IsWordChar(s[i]) \/ IsSpace(s[i]) THEN s[i] ELSE " "]

\* re.sub(r"\s+", " ", text)
RECURSIVE CollapseSpaces(_)
CollapseSpaces(s) ==
    IF s = <<>> THEN <<>>
    ELSE IF IsSpace(Head(s))
         THEN <<" ">> \o CollapseSpaces(LStrip(s))
         ELSE <<Head(s)>> \o CollapseSpaces(Tail(s))

\* lines 42-45: the working text
CleanText(cap) == Strip(CollapseSpaces(StripPunct(StripBrackets(Lower(cap)))))

\* the variant that deletes only the first occurrence of the year
RemoveYearFirstOnly(text, year) ==
    IF ~Truthy(year) \/ ~Contains(text, year) THEN text
    ELSE LET i == CHOOSE j \in DOMAIN text :
                      OccursAt(text, year, j) /\ \A k \in 1..(j - 1) : ~OccursAt(text, year, k)
         IN  Strip(SubSeq(text, 1, i - 1) \o SubSeq(text, i + Len(year), Len(text)))

\* the variant that leaves the year in the working text
RemoveYearNever(text, year) == text

\* lines 46-47: if year: text = text.replace(year, "").strip()
RemoveYear(text, year) ==
    IF Truthy(year) THEN Strip(ReplaceAll(text, year)) ELSE text

\* line 48
TitleCase(text) ==
    IF Truthy(text)
    THEN LET ws == Split(text)
         IN  Join(<<" ">>, [i \in DOMAIN ws |-> Capitalize(ws[i])])
    ELSE <<>>

extract_title_year(cap) ==
    IF ~Truthy(cap) THEN [title |-> <<>>, year |-> None]
    ELSE LET year == YearSearch(cap)
         IN  [title |-> TitleCase(RemoveYear(CleanText(cap), year)), year |-> year]

-----------------------------------------------------------------------------
(* detect_category *)

tamil == <<"t","a","m","i","l">>
telugu == <<"t","e","l","u","g","u">>
malayalam == <<"m","a","l","a","y","a","l","a","m">>
kannada == <<"k","a","n","n","a","d","a">>
dubbed == <<"d","u","b","b","e","d">>
dual_audio == <<"d","u","a","l"," ","a","u","d","i","o">>
hindi == <<"h","i","n","d","i">>

south == <<"s","o","u","t","h">>
hollywood == <<"h","o","l","l","y","w","o","o","d">>
bollywood == <<"b","o","l","l","y","w","o","o","d">>

\* the variant that tests "hindi" before "dubbed" / "dual audio"
detect_category_hindi_first(cap) ==
    LET c == Lower(Or(cap, <<>>))
    IN  IF \E x \in {tamil, telugu, malayalam, kannada} : Contains(c, x) THEN south
        ELSE IF Contains(c, hindi) THEN bollywood
        ELSE IF Contains(c, dubbed) \/ Contains(c, dual_audio) THEN hollywood
        ELSE hollywood

detect_category(cap) ==
    LET c == Lower(Or(cap, <<>>))
    IN  IF \E x \in {tamil, telugu, malayalam, kannada} : Contains(c, x) THEN south
        ELSE IF Contains(c, dubbed) \/ Contains(c, dual_audio) THEN hollywood
        ELSE IF Contains(c, hindi) THEN bollywood
        ELSE hollywood

-----------------------------------------------------------------------------
(* JSON values of the metadata provider, tagged by their type.  A dict is a  *)
(* sequence of <<key, value>> with the key a str, an int is JNum(n), a float *)
(* is JFloat(t) with t its value counted in tenths, or JInf, JNegInf, JNan.  *)
(* Raise(kind) stands for an exception of that kind: an operation applied to *)
(* it hands it on, as the exception leaves the expression under evaluation.  *)

JNull == <<"null">>
JBool(b) == <<"bool", b>>
JStr(s) == <<"str", s>>
JNum(n) == <<"num", n>>
JFloat(t) == <<"float", t>>
JInf == <<"inf">>
JNegInf == <<"-inf">>
JNan == <<"nan">>
JList(l) == <<"list", l>>
JDict(d) == <<"dict", d>>
Unbound == <<"unbound">>
Raise(kind) == <<"raise", kind>>

\* the keys the code looks up
k_results == <<"r","e","s","u","l","t","s">>
k_credits == <<"c","r","e","d","i","t","s">>
k_cast == <<"c","a","s","t">>
k_crew == <<"c","r","e","w">>
k_name == <<"n","a","m","e">>
k_job == <<"j","o","b">>
k_videos == <<"v","i","d","e","o","s">>
k_type == <<"t","y","p","e">>
k_site == <<"s","i","t","e">>
k_key == <<"k","e","y">>
k_genres == <<"g","e","n","r","e","s">>
k_title == <<"t","i","t","l","e">>
k_poster_path == <<"p","o","s","t","e","r","_","p","a","t","h">>
k_backdrop_path == <<"b","a","c","k","d","r","o","p","_","p","a","t","h">>
k_overview == <<"o","v","e","r","v","i","e","w">>
k_release_date == <<"r","e","l","e","a","s","e","_","d","a","t","e">>
k_runtime == <<"r","u","n","t","i","m","e">>
k_vote_average == <<"v","o","t","e","_","a","v","e","r","a","g","e">>
k_tagline == <<"t","a","g","l","i","n","e">>
k_id == <<"i","d">>
k_page == <<"p","a","g","e">>

IsRaise(v) == Len(v) = 2 /\ v[1] = "raise"

IsDict(v) == v[1] = "dict"

\* truthiness of a JSON value
JTruthy(v) ==
    CASE v[1] = "str" -> v[2] /= <<>>
      [] v[1] = "num" -> v[2] /= 0
      [] v[1] = "float" -> v[2] /= 0
      [] v[1] = "bool" -> v[2]
      [] v[1] \in {"inf", "-inf", "nan"} -> TRUE
      [] v[1] = "list" -> v[2] /= <<>>
      [] v[1] = "dict" -> v[2] /= <<>>
      [] OTHER -> FALSE

\* v or w
JOr(v, w) == IF IsRaise(v) \/ JTruthy(v) THEN v ELSE w

JHas(d, k) == IsDict(d) /\ \E i \in DOMAIN d[2] : d[2][i][1] = k

\* d.get(k, default): only a dict has the method
JGetD(d, k, default) ==
    IF IsRaise(d) THEN d
    ELSE IF ~IsDict(d) THEN Raise("AttributeError")
    ELSE IF JHas(d, k) THEN d[2][CHOOSE i \in DOMAIN d[2] : d[2][i][1] = k][2]
    ELSE default

\* d.get(k)
JGet(d, k) == JGetD(d, k, JNull)

\* d[k] for a str k
JItem(d, k) ==
    IF IsRaise(d) THEN d
    ELSE IF ~IsDict(d) THEN Raise("TypeError")
    ELSE IF JHas(d, k) THEN JGet(d, k)
    ELSE Raise("KeyError")

\* v[0] of a truthy v
JFirst(v) ==
    CASE v[1] = "list" -> v[2][1]
      [] v[1] = "str" -> JStr(<<v[2][1]>>)
      [] v[1] = "dict" -> Raise("KeyError")
      [] OTHER -> Raise("TypeError")

\* what a for loop over v visits, as a list: the elements of a list, the
\* keys of a dict, the characters of a str
Iter(v) ==
    CASE v[1] = "list" -> v
      [] v[1] = "dict" -> JList([i \in DOMAIN v[2] |-> JStr(v[2][i][1])])
      [] v[1] = "str" -> JList([i \in DOMAIN v[2] |-> JStr(<<v[2][i]>>)])
      [] v[1] = "raise" -> v
      [] OTHER -> Raise("TypeError")

\* the Python value a JSON value is stored as in a document: a str as its
\* characters, null as None, any other value as it is
PyVal(v) ==
    CASE v[1] = "str" -> v[2]
      [] v[1] = "null" -> None
      [] OTHER -> v

\* (v or "").lower()
LowerOrEmpty(v) ==
    IF IsRaise(v) THEN v
    ELSE IF ~JTruthy(v) THEN JStr(<<>>)
    ELSE IF v[1] = "str" THEN JStr(Lower(v[2]))
    ELSE Raise("AttributeError")

DigitSeq == <<"0","1","2","3","4","5","6","7","8","9">>

DigitVal(c) == (CHOOSE i \in DOMAIN DigitSeq : DigitSeq[i] = c) - 1

\* the decimal digits of n >= 0
RECURSIVE Digits(_)
Digits(n) ==
    IF n < 10 THEN <<DigitSeq[n + 1]>> ELSE Digits(n \div 10) \o <<DigitSeq[(n % 10) + 1]>>

\* the characters repr writes as an escape, on the ASCII range
ReprEscapes ==
    <<<<"\\", <<"\\","\\">> >>, <<"\t", <<"\\","t">> >>, <<"\n", <<"\\","n">> >>,
       <<"\r", <<"\\","r">> >>, <<"", <<"\\","x","0","1">> >>, <<"", <<"\\","x","0","2">> >>,
       <<"", <<"\\","x","0","3">> >>, <<"", <<"\\","x","0","4">> >>, <<"", <<"\\","x","0","5">> >>,
       <<"", <<"\\","x","0","6">> >>, <<"", <<"\\","x","0","7">> >>, <<"", <<"\\","x","0","8">> >>,
       <<"", <<"\\","x","0","b">> >>, <<"\f", <<"\\","x","0","c">> >>, <<"", <<"\\","x","0","e">> >>,
       <<"", <<"\\","x","0","f">> >>, <<"", <<"\\","x","1","0">> >>, <<"", <<"\\","x","1","1">> >>,
       <<"", <<"\\","x","1","2">> >>, <<"", <<"\\","x","1","3">> >>, <<"", <<"\\","x","1","4">> >>,
       <<"", <<"\\","x","1","5">> >>, <<"", <<"\\","x","1","6">> >>, <<"", <<"\\","x","1","7">> >>,
       <<"", <<"\\","x","1","8">> >>, <<"", <<"\\","x","1","9">> >>, <<"", <<"\\","x","1","a">> >>,
       <<"", <<"\\","x","1","b">> >>, <<"", <<"\\","x","1","c">> >>, <<"", <<"\\","x","1","d">> >>,
       <<"", <<"\\","x","1","e">> >>, <<"", <<"\\","x","1","f">> >>, <<"", <<"\\","x","7","f">> >> >>

Concat(seqs) == Join(<<>>, seqs)

\* repr of a str: in single quotes, or in double quotes when it holds a
\* single quote and no double quote
ReprStr(s) ==
    LET quote == IF "'" \in Range(s) /\ "\"" \notin Range(s) THEN "\"" ELSE "'"
        EscapeOf(c) ==
            IF c = quote THEN <<"\\", c>>
            ELSE IF \E i \in DOMAIN ReprEscapes : ReprEscapes[i][1] = c
            THEN ReprEscapes[CHOOSE i \in DOMAIN ReprEscapes : ReprEscapes[i][1] = c][2]
            ELSE <<c>>
    IN  <<quote>> \o Concat([i \in DOMAIN s |-> EscapeOf(s[i])]) \o <<quote>>

\* repr of a JSON value as Python holds it
RECURSIVE Repr(_)
Repr(v) ==
    CASE v[1] = "str" -> ReprStr(v[2])
      [] v[1] = "num" -> IF v[2] < 0 THEN <<"-">> \o Digits(-v[2]) ELSE Digits(v[2])
      [] v[1] = "float" ->
            IF v[2] < 0
            THEN <<"-">> \o Digits((-v[2]) \div 10) \o <<".">> \o Digits((-v[2]) % 10)
            ELSE Digits(v[2] \div 10) \o <<".">> \o Digits(v[2] % 10)
      [] v[1] = "inf" -> <<"i","n","f">>
      [] v[1] = "-inf" -> <<"-","i","n","f">>
      [] v[1] = "nan" -> <<"n","a","n">>
      [] v[1] = "bool" -> IF v[2] THEN <<"T","r","u","e">> ELSE <<"F","a","l","s","e">>
      [] v[1] = "null" -> <<"N","o","n","e">>
      [] v[1] = "list" ->
            <<"[">> \o Join(<<",", " ">>, [i \in DOMAIN v[2] |-> Repr(v[2][i])]) \o <<"]">>
      [] v[1] = "dict" ->
            <<"{">> \o Join(<<",", " ">>, [i \in DOMAIN v[2] |->
                                             ReprStr(v[2][i][1]) \o <<":", " ">> \o Repr(v[2][i][2])])
                    \o <<"}">>

\* str(v), as an f-string inserts it
Format(v) == IF v[1] = "str" THEN v[2] ELSE Repr(v)

\* the whitespace int() and float() skip around a numeral
NumeralSpaceChars == {" ", "\t", "\n", "\r", "\f", ""}

RECURSIVE NumeralStrip(_)
NumeralStrip(s) ==
    IF s /= <<>> /\ Head(s) \in NumeralSpaceChars THEN NumeralStrip(Tail(s))
    ELSE IF s /= <<>> /\ s[Len(s)] \in NumeralSpaceChars
         THEN NumeralStrip(SubSeq(s, 1, Len(s) - 1))
         ELSE s

\* digits, with single underscores between them
IsDigits(b) ==
    /\ b /= <<>>
    /\ IsDigit(b[1])
    /\ IsDigit(b[Len(b)])
    /\ \A i \in DOMAIN b :
          IsDigit(b[i]) \/ (b[i] = "_" /\ IsDigit(b[i - 1]) /\ IsDigit(b[i + 1]))

RECURSIVE DigitsValue(_, _)
DigitsValue(b, acc) ==
    IF b = <<>> THEN acc
    ELSE DigitsValue(Tail(b), IF Head(b) = "_" THEN acc ELSE 10 * acc + DigitVal(Head(b)))

Unsigned(s) == IF s /= <<>> /\ Head(s) \in {"+", "-"} THEN Tail(s) ELSE s

Sign(s) == IF s /= <<>> /\ Head(s) = "-" THEN -1 ELSE 1

RECURSIVE Pow10(_)
Pow10(n) == IF n = 0 THEN 1 ELSE 10 * Pow10(n - 1)

\* the index of the first c in s, or 0
IndexOf(s, c) ==
    IF \E i \in DOMAIN s : s[i] = c
    THEN CHOOSE i \in DOMAIN s : s[i] = c /\ \A j \in 1..(i - 1) : s[j] /= c
    ELSE 0

\* int(s) for a str
IntOfStr(s) ==
    LET t == NumeralStrip(s)
        b == Unsigned(t)
    IN  IF IsDigits(b) THEN JNum(Sign(t) * DigitsValue(b, 0)) ELSE Raise("ValueError")

\* float(s) for a str, in tenths with the further decimals dropped: inf,
\* infinity or nan in any case, or a decimal numeral with an optional
\* exponent, after an optional sign
FloatOfStr(s) ==
    LET t == NumeralStrip(s)
        b == Lower(Unsigned(t))
        e == IndexOf(b, "e")
        mant == IF e = 0 THEN b ELSE SubSeq(b, 1, e - 1)
        ex == IF e = 0 THEN <<"0">> ELSE SubSeq(b, e + 1, Len(b))
        dot == IndexOf(mant, ".")
        whole == IF dot = 0 THEN mant ELSE SubSeq(mant, 1, dot - 1)
        frac == IF dot = 0 THEN <<>> ELSE SubSeq(mant, dot + 1, Len(mant))
        shift == Sign(ex) * DigitsValue(Unsigned(ex), 0) - Len(SelectSeq(frac, IsDigit)) + 1
        m == DigitsValue(whole \o frac, 0)
    IN  IF b \in {<<"i","n","f">>, <<"i","n","f","i","n","i","t","y">>}
        THEN (IF Sign(t) < 0 THEN JNegInf ELSE JInf)
        ELSE IF b = <<"n","a","n">> THEN JNan
        ELSE IF /\ whole = <<>> \/ IsDigits(whole)
                /\ frac = <<>> \/ IsDigits(frac)
                /\ whole /= <<>> \/ frac /= <<>>
                /\ IsDigits(Unsigned(ex))
        THEN JFloat(Sign(t) * (IF m = 0 \/ shift < -9 THEN 0
                               ELSE IF shift >= 0 THEN m * Pow10(shift)
                               ELSE m \div Pow10(-shift)))
        ELSE Raise("ValueError")

ImgBase == <<"h","t","t","p","s",":","/","/","i","m","a","g","e",".","t","m","d","b",
             ".","o","r","g","/","t","/","p","/","o","r","i","g","i","n","a","l">>
YouTubeBase == <<"h","t","t","p","s",":","/","/","w","w","w",".","y","o","u","t","u","b",
                 "e",".","c","o","m","/","w","a","t","c","h","?","v","=">>
director_job == <<"d","i","r","e","c","t","o","r">>
producer_job == <<"p","r","o","d","u","c","e","r">>
trailer_type == <<"t","r","a","i","l","e","r">>
youtube_site == <<"y","o","u","t","u","b","e">>

-----------------------------------------------------------------------------
(* tmdb_search, tmdb_details: resp is what the HTTP call came back with,    *)
(* <<"error">> for a transport error, a timeout, a non-success status or a  *)
(* body that is no JSON, <<"ok", body>> for a JSON body.                    *)

\* r.json().get("results", []), [] when that raises
tmdb_search(resp) ==
    IF resp[1] = "ok"
    THEN LET results == JGetD(resp[2], k_results, JList(<<>>))
         IN  IF IsRaise(results) THEN JList(<<>>) ELSE results
    ELSE JList(<<>>)

\* r.json(), None on failure
tmdb_details(resp) == IF resp[1] = "ok" THEN resp[2] ELSE JNull

build_img(path) == IF JTruthy(path) THEN ImgBase \o Format(path) ELSE <<>>

-----------------------------------------------------------------------------
(* build_ordered_doc *)

ActorLimit == 10

\* line 95: every cast member is asked for its name, the first ten names are
\* joined, and join takes only str
ActorsStr(cast) ==
    IF IsRaise(cast) THEN cast
    ELSE IF ~JTruthy(cast) THEN JStr(<<>>)
    ELSE LET members == Iter(cast)
         IN  IF IsRaise(members) THEN members
             ELSE LET names == [i \in DOMAIN members[2] |-> JGet(members[2][i], k_name)]
                      first == SubSeq(names, 1, IF Len(names) < ActorLimit
                                                THEN Len(names) ELSE ActorLimit)
                  IN  IF \E i \in DOMAIN names : IsRaise(names[i])
                      THEN Raise("AttributeError")
                      ELSE IF \E i \in DOMAIN first : first[i][1] /= "str"
                      THEN Raise("TypeError")
                      ELSE JStr(Join(<<",", " ">>, [i \in DOMAIN first |-> first[i][2]]))

\* lines 101-106: the loop over the crew members left, with director and
\* producer as found so far; <<"ok", director, producer>> at its end
RECURSIVE CrewLoop(_, _, _)
CrewLoop(crew, director, producer) ==
    IF crew = <<>> THEN <<"ok", director, producer>>
    ELSE LET member == Head(crew)
             job == LowerOrEmpty(JGet(member, k_job))
             name == JOr(JGet(member, k_name), JStr(<<>>))
         IN  IF IsRaise(job) THEN job
             ELSE CrewLoop(Tail(crew),
                           IF job[2] = director_job /\ ~JTruthy(director) THEN name ELSE director,
                           IF job[2] = producer_job /\ ~JTruthy(producer) THEN name ELSE producer)

\* lines 99-106
CrewNames(crew) ==
    LET members == Iter(crew)
    IN  IF IsRaise(members) THEN members
        ELSE CrewLoop(members[2], JStr(<<>>), JStr(<<>>))

\* lines 111-116: the loop over the videos left
RECURSIVE TrailerLoop(_)
TrailerLoop(videos) ==
    IF videos = <<>> THEN JStr(<<>>)
    ELSE LET v == Head(videos)
             type == LowerOrEmpty(JGet(v, k_type))
             site == LowerOrEmpty(JGet(v, k_site))
             key == JGet(v, k_key)
         IN  IF IsRaise(type) THEN type
             ELSE IF type[2] /= trailer_type THEN TrailerLoop(Tail(videos))
             ELSE IF IsRaise(site) THEN site
             ELSE IF site[2] /= youtube_site THEN TrailerLoop(Tail(videos))
             ELSE IF JTruthy(key) THEN JStr(YouTubeBase \o Format(key))
             ELSE TrailerLoop(Tail(videos))

\* lines 109-116
Trailer(videos) ==
    LET vs == Iter(videos)
    IN  IF IsRaise(vs) THEN vs ELSE TrailerLoop(vs[2])

\* line 119
Genres(genres) ==
    LET gs == Iter(JOr(genres, JList(<<>>)))
    IN  IF IsRaise(gs) THEN gs
        ELSE LET names == [i \in DOMAIN gs[2] |-> JGet(gs[2][i], k_name)]
             IN  IF \E i \in DOMAIN names : IsRaise(names[i])
                 THEN Raise("AttributeError")
                 ELSE JList(names)

\* lines 123-126: int(x or 0), 0 when int raises (as it does for inf and nan);
\* a float is cut off towards 0
ToInt(v) ==
    IF ~JTruthy(v) THEN 0
    ELSE IF v[1] = "num" THEN v[2]
    ELSE IF v[1] = "float" THEN (IF v[2] >= 0 THEN v[2] \div 10 ELSE -((-v[2]) \div 10))
    ELSE IF v[1] = "bool" THEN 1
    ELSE IF v[1] = "str" THEN (IF IsRaise(IntOfStr(v[2])) THEN 0 ELSE IntOfStr(v[2])[2])
    ELSE 0

\* the float a document holds: its tenths, or JInf, JNegInf, JNan
FloatVal(v) == IF v[1] = "float" THEN v[2] ELSE v

\* lines 127-130: float(x or 0), 0.0 when float raises
ToFloat(v) ==
    IF ~JTruthy(v) THEN 0
    ELSE IF v[1] = "num" THEN 10 * v[2]
    ELSE IF v[1] \in {"float", "inf", "-inf", "nan"} THEN FloatVal(v)
    ELSE IF v[1] = "bool" THEN 10
    ELSE IF v[1] = "str" THEN (IF IsRaise(FloatOfStr(v[2])) THEN 0 ELSE FloatVal(FloatOfStr(v[2])))
    ELSE 0

FieldOrder == <<"title", "posterUrl", "backdropUrl", "description", "category", "actors",
                "director", "producer", "rating", "downloadLinks", "telegramLinks",
                "seasons", "trailerLink", "genres", "releaseDate", "runtime", "tagline",
                "createdAt", "updatedAt", "__v">>

\* the document, or the exception of the first statement that raises
build_ordered_doc(tmdb, parsed_title, file_id, cat, now) ==
    LET has == JTruthy(tmdb)
        credits == JOr(JGetD(tmdb, k_credits, JDict(<<>>)), JDict(<<>>))
        cast == IF has THEN JGetD(credits, k_cast, JList(<<>>)) ELSE JList(<<>>)
        actors_str == ActorsStr(cast)
        crew == IF has THEN JGetD(credits, k_crew, JList(<<>>)) ELSE JList(<<>>)
        names == CrewNames(crew)
        videos == IF has
                  THEN JGetD(JOr(JGetD(tmdb, k_videos, JDict(<<>>)), JDict(<<>>)),
                             k_results, JList(<<>>))
                  ELSE JList(<<>>)
        trailer == Trailer(videos)
        genres == IF has THEN Genres(JGet(tmdb, k_genres)) ELSE JList(<<>>)
        steps == <<actors_str, names, trailer, genres>>
    IN  IF \E i \in DOMAIN steps : IsRaise(steps[i])
        THEN steps[CHOOSE i \in DOMAIN steps :
                       IsRaise(steps[i]) /\ \A j \in 1..(i - 1) : ~IsRaise(steps[j])]
        ELSE
        << <<"title", IF Truthy(parsed_title) THEN parsed_title
                      ELSE IF has THEN PyVal(JOr(JGet(tmdb, k_title), JStr(<<>>)))
                      ELSE <<>> >>,
           <<"posterUrl", IF has THEN build_img(JGet(tmdb, k_poster_path)) ELSE <<>> >>,
           <<"backdropUrl", IF has THEN build_img(JGet(tmdb, k_backdrop_path)) ELSE <<>> >>,
           <<"description", IF has THEN PyVal(JGet(tmdb, k_overview)) ELSE <<>> >>,
           <<"category", Or(cat, hollywood)>>,
           <<"actors", PyVal(actors_str)>>,
           <<"director", PyVal(names[2])>>,
           <<"producer", PyVal(names[3])>>,
           <<"rating", IF has THEN ToFloat(JGet(tmdb, k_vote_average)) ELSE 0>>,
           <<"downloadLinks", <<>> >>,
           <<"telegramLinks", <<Or(file_id, <<>>)>> >>,
           <<"seasons", <<>> >>,
           <<"trailerLink", PyVal(trailer)>>,
           <<"genres", [i \in DOMAIN genres[2] |-> PyVal(genres[2][i])]>>,
           <<"releaseDate",
             IF has /\ JTruthy(JGet(tmdb, k_release_date))
             THEN PyVal(JGet(tmdb, k_release_date)) ELSE <<>> >>,
           <<"runtime", IF has THEN ToInt(JGet(tmdb, k_runtime)) ELSE 0>>,
           <<"tagline", IF has THEN PyVal(JGet(tmdb, k_tagline)) ELSE <<>> >>,
           <<"createdAt", now>>,
           <<"updatedAt", now>>,
           <<"__v", 0>> >>

\* line 203: [{"id": g["id"], "name": g["name"]} for g in tmdb.get("genres", [])]
MinimalGenres(tmdb) ==
    IF tmdb = Unbound THEN Raise("UnboundLocalError")
    ELSE LET gs == Iter(JGetD(tmdb, k_genres, JList(<<>>)))
         IN  IF IsRaise(gs) THEN gs
             ELSE LET entries == [i \in DOMAIN gs[2] |->
                                     IF IsRaise(JItem(gs[2][i], k_id)) THEN JItem(gs[2][i], k_id)
                                     ELSE IF IsRaise(JItem(gs[2][i], k_name))
                                          THEN JItem(gs[2][i], k_name)
                                          ELSE <<"entry", << <<"id", PyVal(JItem(gs[2][i], k_id))>>,
                                                          <<"name", PyVal(JItem(gs[2][i], k_name))>> >> >>]
                  IN  IF \E i \in DOMAIN entries : IsRaise(entries[i])
                      THEN entries[CHOOSE i \in DOMAIN entries :
                                       IsRaise(entries[i])
                                       /\ \A j \in 1..(i - 1) : ~IsRaise(entries[j])]
                      ELSE JList(entries)

\* lines 189-210: the dict display of the no-result branch, or the exception
\* its "genres" entry raises; tmdb is Unbound while the name has no value
minimal_doc(parsed_, cap, cat, file_id, tmdb, now) ==
    LET genres == MinimalGenres(tmdb)
    IN  IF IsRaise(genres) THEN genres
        ELSE
        << <<"title", Or(parsed_.title, cap)>>,
           <<"posterUrl", <<>> >>,
           <<"backdropUrl", <<>> >>,
           <<"description", <<>> >>,
           <<"category", cat>>,
           <<"actors", <<>> >>,
           <<"director", <<>> >>,
           <<"producer", <<>> >>,
           <<"rating", 0>>,
           <<"downloadLinks", <<>> >>,
           <<"telegramLinks", <<Or(file_id, <<>>)>> >>,
           <<"seasons", <<>> >>,
           <<"trailerLink", <<>> >>,
           <<"genres", [i \in DOMAIN genres[2] |-> genres[2][i][2]]>>,
           <<"releaseDate", Or(parsed_.year, <<>>)>>,
           <<"runtime", 0>>,
           <<"tagline", <<>> >>,
           <<"createdAt", now>>,
           <<"updatedAt", now>>,
           <<"__v", 0>> >>

-----------------------------------------------------------------------------
(* Python dicts with ordered keys, and the collection *)

Keys(d) == [i \in DOMAIN d |-> d[i][1]]

Has(d, k) == \E i \in DOMAIN d : d[i][1] = k

\* d[k]
Get(d, k) == d[CHOOSE i \in DOMAIN d : d[i][1] = k][2]

\* the variant of d[k] = v that drops the key and adds it again at the end
SetItemAtEnd(d, k, v) ==
    SelectSeq(d, LAMBDA kv : kv[1] /= k) \o << <<k, v>> >>

\* d[k] = v: an existing key keeps its place, a new key goes last
SetItem(d, k, v) ==
    IF Has(d, k)
    THEN [i \in DOMAIN d |-> IF d[i][1] = k THEN <<k, v>> ELSE d[i]]
    ELSE Append(d, <<k, v>>)

\* {"title": ..., "releaseDate": ...}
filter_q(d) == << <<"title", Get(d, "title")>>, <<"releaseDate", Get(d, "releaseDate")>> >>

Matches(stored, flt) ==
    \A i \in DOMAIN flt : Has(stored, flt[i][1]) /\ Get(stored, flt[i][1]) = flt[i][2]

Matching(coll, flt) == {i \in DOMAIN coll : Matches(coll[i], flt)}

FirstMatch(coll, flt) ==
    CHOOSE i \in Matching(coll, flt) : \A j \in Matching(coll, flt) : i <= j

\* collection.find_one(filter): the first matching document, or None
find_one(coll, flt) ==
    IF Matching(coll, flt) = {} THEN None ELSE coll[FirstMatch(coll, flt)]

\* The collection lives in a server outside the program (lines 31-34), and
\* the program creates no index on it, so nothing it does makes the server
\* refuse a second document with the (title, releaseDate) of a stored one.
\* The model therefore grants a call of the collection no more than the
\* program sets up: the call may fail, and the server serves
\* find_one_and_replace(filter, replacement, upsert=True) as a query for a
\* matching document followed by the write that the query's answer calls
\* for, with the calls of other runs free to come in between. A call served
\* in one piece is the case where nothing comes in between.

\* what a call of the collection may come to: it is served, or it raises
StoreOutcomes == {"ok", "error"}

NoMatch == 0

\* the query of find_one_and_replace: the place of the first matching
\* document, or NoMatch
upsert_query(coll, flt) ==
    IF Matching(coll, flt) = {} THEN NoMatch ELSE FirstMatch(coll, flt)

\* the write of find_one_and_replace(..., upsert=True), the collection
\* afterwards: the replacement is stored under the _id of the document the
\* query matched, or, when it matched none, is inserted under a new _id
find_one_and_replace(coll, matched, replacement, id) ==
    IF matched = NoMatch
    THEN Append(coll, << <<"_id", id>> >> \o replacement)
    ELSE [coll EXCEPT ![matched] = << <<"_id", Get(@, "_id")>> >> \o replacement]

-----------------------------------------------------------------------------
(* The inputs of the handler runs *)

NumHandlers == 2

Handlers == 1..NumHandlers

Ab == <<"A","b">>
ab_2010 == <<"a","b"," ","2","0","1","0">>
y2010 == <<"2","0","1","0">>

\* effective_message, as <<video file_id, document file_id, caption>>, or
\* <<>> when the update carries no message
Messages ==
    { <<>>,
      <<None, None, Ab>>,
      <<<<"V">>, None, ab_2010>>,
      <<<<"V">>, None, Ab>>,
      <<None, <<"D">>, None>> }

Candidate(id) == JDict(<< <<k_id, id>>, <<k_title, JStr(Ab)>> >>)

SearchBody(results) == JDict(<< <<k_page, JNum(1)>>, <<k_results, JList(results)>> >>)

SearchResponses ==
    { <<"error">>,
      <<"ok", SearchBody(<<>>)>>,
      <<"ok", SearchBody(<<Candidate(JNum(7)), Candidate(JNum(8))>>)>>,
      <<"ok", SearchBody(<<Candidate(JNull)>>)>>,
      <<"ok", SearchBody(<<JNull>>)>> }

Person(name) == JDict(<< <<k_name, JStr(<<name>>)>> >>)

Crew(job, name) == JDict(<< <<k_job, JStr(job)>>, <<k_name, JStr(name)>> >>)

Video(type, site, key) ==
    JDict(<< <<k_type, JStr(type)>>, <<k_site, JStr(site)>>, <<k_key, JStr(key)>> >>)

TmdbFull ==
    JDict(<< <<k_title, JStr(<<"A","b","c">>)>>,
             <<k_poster_path, JStr(<<"/","p">>)>>,
             <<k_backdrop_path, JNull>>,
             <<k_overview, JStr(<<"o">>)>>,
             <<k_genres, JList(<<JDict(<< <<k_id, JNum(1)>>, <<k_name, JStr(<<"G">>)>> >>)>>)>>,
             <<k_release_date, JStr(y2010)>>,
             <<k_runtime, JNum(148)>>,
             <<k_vote_average, JFloat(84)>>,
             <<k_tagline, JStr(<<"t">>)>>,
             <<k_credits, JDict(<<
                 <<k_cast, JList([i \in 1..11 |-> Person(LowerChars[i])])>>,
                 <<k_crew, JList(<<Crew(<<"P","r","o","d","u","c","e","r">>, <<"P">>),
                                   Crew(<<"D","i","r","e","c","t","o","r">>, <<>>),
                                   Crew(<<"D","i","r","e","c","t","o","r">>, <<"D">>)>>)>> >>)>>,
             <<k_videos, JDict(<<
                 <<k_results, JList(<<Video(<<"T","e","a","s","e","r">>, <<"Y","o","u","T","u","b","e">>, <<"t">>),
                                      Video(<<"T","r","a","i","l","e","r">>, <<"Y","o","u","T","u","b","e">>, <<"k">>)>>)>> >>)>> >>)

DetailsResponses ==
    { <<"error">>, <<"ok", TmdbFull>> }

-----------------------------------------------------------------------------
(* handle *)

NoLocals ==
    [caption |-> Unbound, media |-> Unbound, parsed |-> Unbound,
     title_for_search |-> Unbound, year_for_search |-> Unbound, results |-> Unbound,
     tmdb |-> Unbound, ordered_doc |-> Unbound, existing |-> Unbound, now |-> Unbound,
     matched |-> Unbound]

NoLog ==
    [http |-> 0, db |-> 0, writes |-> 0, searches |-> <<>>, last_response |-> "",
     path |-> "", ended |-> "", exception |-> ""]

Init ==
    /\ caption = None
    /\ parsed = NotParsed
    /\ reparsed = NotParsed
    /\ category = NotRun
    /\ pc = [p \in Handlers |-> "idle"]
    /\ local = [p \in Handlers |-> NoLocals]
    /\ collection = <<>>
    /\ nextId = 1
    /\ clock = 1
    /\ log = [p \in Handlers |-> NoLog]

HelperVars == <<caption, parsed, reparsed, category>>

StoreVars == <<collection, nextId>>

\* lines 160-172; run p handles the p-th update that arrives
Receive(p) ==
    /\ pc[p] = "idle"
    /\ \A q \in 1..(p - 1) : pc[q] /= "idle"
    /\ \E msg \in Messages :
          IF msg = <<>> \/ ~Truthy(Or(msg[1], msg[2]))
          THEN /\ pc' = [pc EXCEPT ![p] = "done"]
               /\ log' = [log EXCEPT ![p].ended = "ignored"]
               /\ UNCHANGED local
          ELSE LET cap == Or(msg[3], <<>>)
                   prs == extract_title_year(cap)
               IN  /\ local' = [local EXCEPT ![p].media = Or(msg[1], msg[2]),
                                             ![p].caption = cap,
                                             ![p].parsed = prs,
                                             ![p].title_for_search = Or(Or(prs.title, cap), <<>>),
                                             ![p].year_for_search = prs.year,
                                             ![p].results = JList(<<>>)]
                   /\ pc' = [pc EXCEPT ![p] =
                                IF Truthy(prs.year) THEN "search_year" ELSE "search_title"]
                   /\ UNCHANGED log
    /\ UNCHANGED <<HelperVars, StoreVars, clock>>

\* one call of tmdb_search(query, year) and the test of its results that follows
Search(p, query, year, if_empty) ==
    \E resp \in SearchResponses :
        LET results == tmdb_search(resp)
        IN  /\ local' = [local EXCEPT ![p].results = results]
            /\ log' = [log EXCEPT ![p].http = @ + 1,
                                  ![p].searches = Append(@, <<query, year, JTruthy(results)>>),
                                  ![p].last_response = resp[1],
                                  ![p].path = IF JTruthy(results) THEN "details"
                                              ELSE IF if_empty = "minimal" THEN "minimal"
                                              ELSE @]
            /\ pc' = [pc EXCEPT ![p] = IF JTruthy(results) THEN "details" ELSE if_empty]
            /\ UNCHANGED <<HelperVars, StoreVars, clock>>

\* the next step when the title-only search comes back empty (lines 180, 183)
AfterTitleSearchNoCaption(loc) == "minimal"

AfterTitleSearch(loc) ==
    IF Truthy(loc.caption) /\ loc.caption /= loc.title_for_search
    THEN "search_caption"
    ELSE "minimal"

\* lines 176-178
SearchYear(p) ==
    /\ pc[p] = "search_year"
    /\ Search(p, local[p].title_for_search, local[p].year_for_search, "search_title")

\* lines 178-180
SearchTitle(p) ==
    /\ pc[p] = "search_title"
    /\ Search(p, local[p].title_for_search, None, AfterTitleSearch(local[p]))

\* lines 180-183
SearchCaption(p) ==
    /\ pc[p] = "search_caption"
    /\ Search(p, local[p].caption, None, "minimal")

\* lines 183-212: tmdb is a local of handle that has no value yet, so the
\* dict display raises UnboundLocalError at its "genres" entry, after `now`
\* was read and before the collection is touched; a record that was built
\* would go on to the find_one_and_replace of line 213
Minimal(p) ==
    /\ pc[p] = "minimal"
    /\ clock' = clock + 1
    /\ LET doc == minimal_doc(local[p].parsed, local[p].caption,
                              detect_category(local[p].caption), local[p].media,
                              local[p].tmdb, clock)
       IN  IF IsRaise(doc)
           THEN /\ pc' = [pc EXCEPT ![p] = "done"]
                /\ local' = [local EXCEPT ![p].now = clock]
                /\ log' = [log EXCEPT ![p].ended = "raised", ![p].exception = doc[2]]
           ELSE /\ pc' = [pc EXCEPT ![p] = "replace"]
                /\ local' = [local EXCEPT ![p].now = clock, ![p].ordered_doc = doc]
                /\ UNCHANGED log
    /\ UNCHANGED <<HelperVars, StoreVars>>

\* an exception leaves handle after `calls` calls of the details endpoint
EndRaised(p, exc, calls) ==
    /\ pc' = [pc EXCEPT ![p] = "done"]
    /\ log' = [log EXCEPT ![p].http = @ + calls, ![p].ended = "raised", ![p].exception = exc[2]]
    /\ UNCHANGED <<HelperVars, StoreVars>>

\* lines 224-228 for the details object tmdb: the record is built, unless
\* tmdb.get at line 228 or a statement of build_ordered_doc raises
DetailsBuild(p, tmdb, calls) ==
    LET title == IF Truthy(local[p].parsed.title)
                 THEN JStr(local[p].parsed.title)
                 ELSE JOr(JGet(tmdb, k_title), JStr(<<>>))
        doc == build_ordered_doc(tmdb, PyVal(title), local[p].media,
                                 detect_category(local[p].caption), clock)
    IN  IF IsRaise(title)
        THEN /\ EndRaised(p, title, calls)
             /\ local' = [local EXCEPT ![p].tmdb = tmdb]
             /\ UNCHANGED clock
        ELSE IF IsRaise(doc)
        THEN /\ EndRaised(p, doc, calls)
             /\ local' = [local EXCEPT ![p].tmdb = tmdb, ![p].now = clock]
             /\ clock' = clock + 1
        ELSE /\ local' = [local EXCEPT ![p].tmdb = tmdb, ![p].now = clock, ![p].ordered_doc = doc]
             /\ clock' = clock + 1
             /\ pc' = [pc EXCEPT ![p] = "find"]
             /\ log' = [log EXCEPT ![p].http = @ + calls]
             /\ UNCHANGED <<HelperVars, StoreVars>>

\* the variant without the return of line 222
DetailsThenNoReturn(p, tmdb, calls) == DetailsBuild(p, tmdb, calls)

\* lines 220-228, after `calls` calls of the details endpoint gave tmdb
DetailsThen(p, tmdb, calls) ==
    IF ~JTruthy(tmdb)
    THEN /\ local' = [local EXCEPT ![p].tmdb = tmdb]
         /\ pc' = [pc EXCEPT ![p] = "done"]
         /\ log' = [log EXCEPT ![p].http = @ + calls, ![p].ended = "abandoned"]
         /\ UNCHANGED <<HelperVars, StoreVars, clock>>
    ELSE DetailsBuild(p, tmdb, calls)

\* the variant that calls the details endpoint a second time when the first
\* call fails
DetailsRetry(p) ==
    /\ pc[p] = "details"
    /\ LET tmdb_id == JGet(JFirst(local[p].results), k_id)
       IN  IF IsRaise(tmdb_id)
           THEN EndRaised(p, tmdb_id, 0) /\ UNCHANGED <<local, clock>>
           ELSE IF JTruthy(tmdb_id)
           THEN \E r1, r2 \in DetailsResponses :
                   IF r1[1] = "ok"
                   THEN DetailsThen(p, tmdb_details(r1), 1)
                   ELSE DetailsThen(p, tmdb_details(r2), 2)
           ELSE DetailsThen(p, JNull, 0)

\* lines 218-228
Details(p) ==
    /\ pc[p] = "details"
    /\ LET tmdb_id == JGet(JFirst(local[p].results), k_id)
       IN  IF IsRaise(tmdb_id)
           THEN EndRaised(p, tmdb_id, 0) /\ UNCHANGED <<local, clock>>
           ELSE IF JTruthy(tmdb_id)
           THEN \E resp \in DetailsResponses : DetailsThen(p, tmdb_details(resp), 1)
           ELSE DetailsThen(p, JNull, 0)

\* a call of the collection raises and the exception leaves handle
StoreError(p) ==
    /\ pc' = [pc EXCEPT ![p] = "done"]
    /\ log' = [log EXCEPT ![p].db = @ + 1, ![p].ended = "raised", ![p].exception = "PyMongoError"]
    /\ UNCHANGED <<HelperVars, StoreVars, local, clock>>

\* lines 231-234
FindOne(p) ==
    /\ pc[p] = "find"
    /\ \E outcome \in StoreOutcomes :
          IF outcome = "error"
          THEN StoreError(p)
          ELSE /\ LET doc == local[p].ordered_doc
                      existing == find_one(collection, filter_q(doc))
                  IN  local' = [local EXCEPT
                          ![p].existing = existing,
                          ![p].ordered_doc =
                              IF existing /= None
                              THEN SetItem(doc, "createdAt",
                                           IF Has(existing, "createdAt") /\ Get(existing, "createdAt") /= 0
                                           THEN Get(existing, "createdAt")
                                           ELSE Get(doc, "createdAt"))
                              ELSE doc]
               /\ pc' = [pc EXCEPT ![p] = "replace"]
               /\ log' = [log EXCEPT ![p].db = @ + 1]
               /\ UNCHANGED <<HelperVars, StoreVars, clock>>

\* line 237 (and line 213), first half: the call is made and the server
\* looks for a document that matches filter_q
ReplaceQuery(p) ==
    /\ pc[p] = "replace"
    /\ \E outcome \in StoreOutcomes :
          IF outcome = "error"
          THEN StoreError(p)
          ELSE /\ local' = [local EXCEPT
                       ![p].matched = upsert_query(collection, filter_q(local[p].ordered_doc))]
               /\ pc' = [pc EXCEPT ![p] = "upsert"]
               /\ log' = [log EXCEPT ![p].db = @ + 1]
               /\ UNCHANGED <<HelperVars, StoreVars, clock>>

\* lines 237-238 (and 213-215), second half: the server replaces the document
\* it matched, or inserts the record when it matched none, and the call returns
ReplaceWrite(p) ==
    /\ pc[p] = "upsert"
    /\ collection' = find_one_and_replace(collection, local[p].matched,
                                           local[p].ordered_doc, nextId)
    /\ nextId' = IF local[p].matched = NoMatch THEN nextId + 1 ELSE nextId
    /\ pc' = [pc EXCEPT ![p] = "done"]
    /\ log' = [log EXCEPT ![p].writes = @ + 1, ![p].ended = "saved"]
    /\ UNCHANGED <<HelperVars, local, clock>>

\* the runs of handle interleave at every call they make
Next ==
    \E p \in Handlers :
        \/ Receive(p)
        \/ SearchYear(p)
        \/ SearchTitle(p)
        \/ SearchCaption(p)
        \/ Minimal(p)
        \/ Details(p)
        \/ FindOne(p)
        \/ ReplaceQuery(p)
        \/ ReplaceWrite(p)

Spec == Init /\ [][Next]_vars

\* handle has no await, so on one event loop its runs follow one another
ReceiveSeq(p) ==
    /\ \A q \in Handlers : pc[q] \in {"idle", "done"}
    /\ Receive(p)

NextSeq ==
    \E p \in Handlers :
        \/ ReceiveSeq(p)
        \/ SearchYear(p)
        \/ SearchTitle(p)
        \/ SearchCaption(p)
        \/ Minimal(p)
        \/ Details(p)
        \/ FindOne(p)
        \/ ReplaceQuery(p)
        \/ ReplaceWrite(p)

SpecSeq == Init /\ [][NextSeq]_vars

-----------------------------------------------------------------------------
(* The helpers on their own: a caption is drawn, then parsed, its title is  *)
(* parsed again, and it is classified.                                      *)

MaxParserFrags == 3
MaxClassifierFrags == 3

ParserFrags ==
    { <<"2","0","1","0">>, <<"1","9","9","9">>, <<" ">>, <<"(">>, <<")">>, <<"a","B">>,
      <<"_">>, <<"-">>, <<"2","2","0","1","0","0","1","0">>, <<"2","0">>, <<"\n">>,
      <<"\r">> }

ClassifierFrags ==
    { <<"T","a","m","i","l">>, <<"T","E","L","U","G","U">>,
      <<"m","a","l","a","y","a","l","a","m">>, <<"K","a","n","n","a","d","a">>,
      <<"D","u","b","b","e","d">>, <<"D","u","a","l">>, <<"A","u","d","i","o">>,
      <<"H","i","n","d","i">>, <<" ">>, <<"x">> }

\* the concatenations of at most n fragments
RECURSIVE Concats(_, _)
Concats(frags, n) ==
    IF n = 0 THEN {<<>>}
    ELSE LET shorter == Concats(frags, n - 1)
         IN  shorter \cup {c \o f : c \in shorter, f \in frags}

Captions ==
    {None} \cup Concats(ParserFrags, MaxParserFrags)
           \cup Concats(ClassifierFrags, MaxClassifierFrags)

InitHelpers ==
    /\ caption \in Captions
    /\ parsed = NotParsed
    /\ reparsed = NotParsed
    /\ category = NotRun
    /\ pc = [p \in Handlers |-> "idle"]
    /\ local = [p \in Handlers |-> NoLocals]
    /\ collection = <<>>
    /\ nextId = 1
    /\ clock = 1
    /\ log = [p \in Handlers |-> NoLog]

HandlerVars == <<pc, local, collection, nextId, clock, log>>

Parse ==
    /\ parsed = NotParsed
    /\ parsed' = extract_title_year(caption)
    /\ UNCHANGED <<caption, reparsed, category, HandlerVars>>

Reparse ==
    /\ parsed /= NotParsed
    /\ reparsed = NotParsed
    /\ reparsed' = extract_title_year(parsed.title)
    /\ UNCHANGED <<caption, parsed, category, HandlerVars>>

Classify ==
    /\ category = NotRun
    /\ category' = detect_category(caption)
    /\ UNCHANGED <<caption, parsed, reparsed, HandlerVars>>

NextHelpers == Parse \/ Reparse \/ Classify

SpecHelpers == InitHelpers /\ [][NextHelpers]_vars

-----------------------------------------------------------------------------
(* What the claims speak of *)

\* the key of a stored document or of a record about to be stored
KeyOfDoc(d) == <<Get(d, "title"), Get(d, "releaseDate")>>

\* the run went down the no-result branch / the details branch
TookMinimal(p) == log[p].path = "minimal"
TookDetails(p) == log[p].path = "details"

Searching(p) == pc[p] \in {"search_year", "search_title", "search_caption"}

\* C1: two runs that upsert under the same (title, releaseDate) key never
\* leave two documents for it: the collection holds at most one document per
\* key, and exactly one for the key of every run that has done its upsert.
C1_OneRecordPerKey ==
    /\ \A i, j \in DOMAIN collection :
          KeyOfDoc(collection[i]) = KeyOfDoc(collection[j]) => i = j
    /\ \A p \in Handlers :
          log[p].ended = "saved" =>
              Cardinality(Matching(collection, filter_q(local[p].ordered_doc))) = 1

\* the record a run builds, in either mode, is keyed by this pair
UpsertKey(p) ==
    IF TookMinimal(p)
    THEN <<Or(local[p].parsed.title, local[p].caption), Or(local[p].parsed.year, <<>>)>>
    ELSE KeyOfDoc(local[p].ordered_doc)

\* the run came to the end of an upsert path: it did the upsert of a full
\* record, or went down the no-result branch, whose end is the upsert of a
\* minimal record
Upserted(p) == pc[p] = "done" /\ (log[p].ended = "saved" \/ TookMinimal(p))

\* C2: of the runs that upserted a record with one key, one after the other,
\* the stored record has the createdAt of the first and the updatedAt of the
\* last, whether the records were built in full or in minimal mode.
C2_CreatedAtKept ==
    \A p, q \in Handlers :
        ( /\ p /= q
          /\ Upserted(p) /\ Upserted(q)
          /\ UpsertKey(p) = UpsertKey(q)
          /\ local[p].now < local[q].now
          /\ \A r \in Handlers :
                Upserted(r) /\ UpsertKey(r) = UpsertKey(p) =>
                    local[p].now <= local[r].now /\ local[r].now <= local[q].now )
        => \E i \in DOMAIN collection :
              /\ KeyOfDoc(collection[i]) = UpsertKey(p)
              /\ Get(collection[i], "createdAt") = local[p].now
              /\ Get(collection[i], "updatedAt") = local[q].now

\* C3: a run whose searches all came back empty has stored the minimal record.
C3_MinimalRecordStored ==
    \A p \in Handlers :
        pc[p] = "done" /\ TookMinimal(p) =>
            \E i \in DOMAIN collection :
                /\ Get(collection[i], "posterUrl") = <<>>
                /\ Get(collection[i], "rating") = 0
                /\ Get(collection[i], "telegramLinks") = <<local[p].media>>
                /\ Get(collection[i], "releaseDate") = Or(local[p].parsed.year, <<>>)
                /\ Get(collection[i], "title") = Or(local[p].parsed.title, local[p].caption)

\* C4: a run that found a candidate and got no details for it has made no
\* call to the collection, so no write: it returned at line 222, or, when
\* the candidate is no dict, was left by an exception before the fetch.
C4_NoWriteWithoutDetails ==
    \A p \in Handlers :
        pc[p] = "done" /\ TookDetails(p) /\ ~JTruthy(local[p].tmdb) =>
            /\ log[p].writes = 0
            /\ log[p].db = 0
            /\ local[p].tmdb /= Unbound => log[p].ended = "abandoned"
            /\ local[p].tmdb = Unbound => log[p].ended = "raised" /\ log[p].http = Len(log[p].searches)

\* a details call was made for a candidate and failed, and the run is over
C4_Witness ==
    \E p \in Handlers :
        /\ pc[p] = "done" /\ TookDetails(p)
        /\ local[p].tmdb = JNull
        /\ JTruthy(JGet(JFirst(local[p].results), k_id))
        /\ log[p].http = Len(log[p].searches) + 1
        /\ collection /= <<>>

\* the searches the fallback protocol allows a run, as <<query, year>>
SearchPlan(p) ==
    LET title == Or(local[p].parsed.title, local[p].caption)
    IN  (IF Truthy(local[p].parsed.year) THEN << <<title, local[p].parsed.year>> >> ELSE <<>>)
        \o << <<title, None>> >>
        \o (IF local[p].caption /= title THEN << <<local[p].caption, None>> >> ELSE <<>>)

\* C5: the searches of a run are the planned ones in order, each issued only
\* after all earlier ones came back empty (a failed one counts as empty); the
\* minimal branch is entered exactly when the whole plan came back empty, the
\* details branch exactly when the last search issued returned a candidate.
C5_MinimalIffAllEmpty ==
    \A p \in Handlers :
        pc[p] /= "idle" /\ log[p].ended /= "ignored" =>
            LET s == log[p].searches
                plan == SearchPlan(p)
            IN  /\ Len(s) <= Len(plan)
                /\ \A i \in DOMAIN s : s[i][1] = plan[i][1] /\ s[i][2] = plan[i][2]
                /\ log[p].last_response = "error" => s /= <<>> /\ ~s[Len(s)][3]
                /\ \A i \in 1..(Len(s) - 1) : ~s[i][3]
                /\ Searching(p) => Len(s) < Len(plan) /\ \A i \in DOMAIN s : ~s[i][3]
                /\ TookMinimal(p) <=>
                       ~Searching(p) /\ Len(s) = Len(plan) /\ \A i \in DOMAIN s : ~s[i][3]
                /\ TookDetails(p) <=> s /= <<>> /\ s[Len(s)][3]
                /\ pc[p] = "minimal" \/ log[p].exception = "UnboundLocalError" => TookMinimal(p)
                /\ pc[p] \in {"details", "find", "replace", "upsert"}
                       \/ log[p].ended \in {"abandoned", "saved"} => TookDetails(p)
                /\ pc[p] = "done" => TookMinimal(p) \/ TookDetails(p)

\* a run entered the minimal branch after three searches, the last of which
\* failed
C5_Witness ==
    \E p \in Handlers :
        /\ TookMinimal(p)
        /\ Len(log[p].searches) = 3
        /\ log[p].last_response = "error"

\* C6: every stored document has, after its _id, the twenty fields in the
\* fixed order.
C6_FieldOrder ==
    \A i \in DOMAIN collection : Keys(collection[i]) = <<"_id">> \o FieldOrder

\* a stored document that was replaced with its createdAt carried over
C6_Witness ==
    \E i \in DOMAIN collection :
        Get(collection[i], "createdAt") < Get(collection[i], "updatedAt")

\* C10 as stated: at most two HTTP calls and one round-trip to the collection
\* per run.
C10_TwoCallsOneRoundTrip ==
    \A p \in Handlers : log[p].http <= 2 /\ log[p].db <= 1

\* C10, amended: at most three searches and one details fetch, four HTTP
\* calls in all, and at most two round-trips to the collection per run.
C10_FourCallsTwoRoundTrips ==
    \A p \in Handlers :
        /\ Len(log[p].searches) <= 3
        /\ log[p].http <= Len(log[p].searches) + 1
        /\ log[p].http <= 4
        /\ log[p].db <= 2

\* a run that made four HTTP calls and two round-trips
C10_Witness ==
    \E p \in Handlers : log[p].http = 4 /\ log[p].db = 2 /\ log[p].ended = "saved"

-----------------------------------------------------------------------------
(* The helpers *)

\* kw, in lower case, occurs in s when case is ignored
ContainsCI(s, kw) ==
    \E i \in 1..Len(s) :
        /\ i + Len(kw) - 1 <= Len(s)
        /\ \A k \in 1..Len(kw) : LowerChar(s[i + k - 1]) = kw[k]

\* C7: the classifier answers south, hollywood or bollywood for every caption,
\* None and "" included, by the keywords in priority order, whatever their case.
C7_Classifier ==
    category /= NotRun =>
        LET c == IF caption = None THEN <<>> ELSE caption
        IN  /\ category \in {south, hollywood, bollywood}
            /\ category =
                  IF \E kw \in {tamil, telugu, malayalam, kannada} : ContainsCI(c, kw)
                  THEN south
                  ELSE IF ContainsCI(c, dubbed) \/ ContainsCI(c, dual_audio) THEN hollywood
                  ELSE IF ContainsCI(c, hindi) THEN bollywood
                  ELSE hollywood

\* a caption with "Hindi" and "Dubbed" in mixed case was classified hollywood
C7_Witness ==
    /\ category = hollywood
    /\ caption /= None
    /\ ContainsCI(caption, hindi) /\ ContainsCI(caption, dubbed)
    /\ caption /= Lower(caption)

HasYear(s) == \E i \in DOMAIN s : YearAt(s, i)

\* s has no run of more than four digits
NoLongDigitRun(s) ==
    ~\E i \in 1..(Len(s) - 4) : \A k \in 0..4 : IsDigit(s[i + k])

\* all year tokens of s are the same four digits
OneYear(s) ==
    \A i, j \in DOMAIN s :
        YearAt(s, i) /\ YearAt(s, j) => SubSeq(s, i, i + 3) = SubSeq(s, j, j + 3)

\* C8 as stated: every year token of the caption is the parsed year and does
\* not occur in the title.
C8_EveryYearExtracted ==
    parsed /= NotParsed /\ caption /= None =>
        \A i \in DOMAIN caption :
            YearAt(caption, i) =>
                /\ parsed.year = SubSeq(caption, i, i + 3)
                /\ ~Contains(parsed.title, SubSeq(caption, i, i + 3))

\* C8, amended: the parsed year is the leftmost year token of the caption,
\* and it does not occur in the title when the caption has no run of more
\* than four digits.
C8_FirstYearExtracted ==
    parsed /= NotParsed /\ caption /= None /\ HasYear(caption) =>
        /\ \E i \in DOMAIN caption :
              /\ YearAt(caption, i)
              /\ \A j \in 1..(i - 1) : ~YearAt(caption, j)
              /\ parsed.year = SubSeq(caption, i, i + 3)
        /\ NoLongDigitRun(caption) => ~Contains(parsed.title, parsed.year)

\* a caption with a year token outside brackets and more text was parsed
C8_Witness ==
    /\ parsed /= NotParsed
    /\ caption /= None
    /\ HasYear(caption)
    /\ NoLongDigitRun(caption)
    /\ Contains(CleanText(caption), parsed.year)
    /\ parsed.title /= <<>>

\* C9 as stated: parsing the parsed title gives the same title.
C9_Idempotent ==
    reparsed /= NotParsed => reparsed.title = parsed.title

\* C9, amended: parsing the parsed title gives the same title when the
\* caption, of ASCII characters, has at most one distinct year token and no
\* run of more than four digits.
C9_IdempotentOneYear ==
    reparsed /= NotParsed /\ caption /= None /\ OneYear(caption) /\ NoLongDigitRun(caption) =>
        reparsed.title = parsed.title

\* the title of a caption with a year, which differs from the caption, was
\* parsed again
C9_Witness ==
    /\ reparsed /= NotParsed
    /\ caption /= None
    /\ HasYear(caption) /\ OneYear(caption) /\ NoLongDigitRun(caption)
    /\ parsed.title /= <<>>
    /\ parsed.title /= caption
    /\ reparsed.title = parsed.title

====
